---- MODULE Spec2Model ----
(***************************************************************************)
(* Model of the SiegeUp ServerLauncher supervisor (src/launcher.js): the   *)
(* reconcile loop, the child-process shutdown protocol, the child exit     *)
(* callbacks and the RPC handlers /launch, /restart, /update, /purge and   *)
(* /upload, interleaved as the Node.js event loop interleaves them: one    *)
(* step of the model is one macrotask together with the microtasks it      *)
(* leaves behind, and an awaited port probe or timer ends a step.          *)
(***************************************************************************)
EXTENDS Integers, Sequences, FiniteSets, TLC

(***************************************************************************)
(* Bounds of the model.                                                    *)
(***************************************************************************)
\* number of child processes the reconciler may spawn in one behaviour
MaxProcs == 3
\* number of external events (RPC requests, supervisor restarts)
MaxRequests == 2
\* number of reconcile executions the model can represent at once
MaxWatchers == 2

Ports == {9001, 9002}
Versions == {"v1", "v2"}
\* the value of a property that a JSON object does not have
Undef == "undefined"
\* children.get(port) of a port without entry
NoChild == 0

(***************************************************************************)
(* Bodies of /launch requests: the elements of the servers array as the    *)
(* orchestrator sends them, optional fields present or absent.             *)
(***************************************************************************)
PlainServer == [port |-> 9001, version |-> "v1"]
OtherBuild  == [port |-> 9001, version |-> "v2", args |-> <<"--map", "island">>]
Renamed     == [port |-> 9001, version |-> "v1", name |-> "", visible |-> TRUE]
Parked      == [port |-> 9001, run |-> FALSE]
Lobby       == [port |-> 9002, version |-> "v1", name |-> "lobby"]

LaunchBodies ==
  { <<>>,
    <<PlainServer>>, <<OtherBuild>>, <<Renamed>>, <<Parked>>,
    <<PlainServer, Lobby>>, <<Parked, Lobby>>, <<OtherBuild, Lobby>>,
    <<PlainServer, OtherBuild>> }

(***************************************************************************)
(* JavaScript helpers.                                                     *)
(***************************************************************************)
\* o.k of a JSON object: undefined when the key is missing
Field(o, k) == IF k \in DOMAIN o THEN o[k] ELSE Undef

\* Array.prototype.join(' ')
RECURSIVE Join(_)
Join(a) ==
  IF Len(a) = 0 THEN ""
  ELSE IF Len(a) = 1 THEN a[1]
  ELSE a[1] \o " " \o Join(Tail(a))

\* `Server ${i + 1}` for the 0-based index i = idx - 1
DefaultName(idx) == "Server " \o ToString(idx)

\* one element of nextSettings
Defaulted(s, idx) ==
  [ name    |-> IF "name" \in DOMAIN s /\ s.name # ""
                THEN s.name ELSE DefaultName(idx),
    visible |-> IF "visible" \in DOMAIN s THEN s.visible ELSE FALSE,
    version |-> Field(s, "version"),
    port    |-> s.port,
    args    |-> IF "args" \in DOMAIN s THEN s.args ELSE <<>>,
    run     |-> IF "run" \in DOMAIN s THEN s.run ELSE TRUE ]

NextSettings(servers) == [i \in 1..Len(servers) |-> Defaulted(servers[i], i)]

\* as if the Set were built from the entries, not from their ports
HasDuplicateEntries(servers) ==
  Len(servers) # Cardinality({<<i, servers[i]>> : i \in 1..Len(servers)})

\* ports.length !== new Set(ports).size
HasDuplicatePorts(servers) ==
  Len(servers) # Cardinality({servers[i].port : i \in 1..Len(servers)})

\* nextMap.get(port): index of the entry of nextSettings with that port, 0 if none
NextMapGet(next, port) ==
  IF \E i \in 1..Len(next) : next[i].port = port
  THEN CHOOSE i \in 1..Len(next) :
         next[i].port = port /\ \A j \in (i+1)..Len(next) : next[j].port # port
  ELSE 0

\* shouldStop of the /launch loop for the old entry s
ShouldStop(s, next) ==
  LET k == NextMapGet(next, s.port) IN
    \/ k = 0
    \/ next[k].version # s.version
    \/ Join(next[k].args) # Join(s.args)
    \/ ~next[k].run

(***************************************************************************)
(* settings.json: JSON.stringify drops the properties whose value is       *)
(* undefined, JSON.parse gives back objects without them.                  *)
(***************************************************************************)
JsonObject(s) ==
  IF s.version = Undef
  THEN [name |-> s.name, visible |-> s.visible, port |-> s.port,
        args |-> s.args, run |-> s.run]
  ELSE s

JsonStringify(servers) == [i \in 1..Len(servers) |-> JsonObject(servers[i])]

JsonParse(text) ==
  [i \in 1..Len(text) |->
     [ name    |-> text[i].name,
       visible |-> text[i].visible,
       version |-> Field(text[i], "version"),
       port    |-> text[i].port,
       args    |-> text[i].args,
       run     |-> text[i].run ]]

(***************************************************************************)
(* Build store: the content of builds/<version>/ as a directory tree.  A   *)
(* file name is the sequence of its pieces, so that includes() and         *)
(* endsWith() can be decided.                                              *)
(***************************************************************************)
File(name) == [name |-> name, dir |-> FALSE, kids |-> <<>>]
Dir(name, kids) == [name |-> name, dir |-> TRUE, kids |-> kids]

NoDir == [exists |-> FALSE, entries |-> <<>>]
BuildDir(entries) == [exists |-> TRUE, entries |-> entries]

ServerTree ==
  << File(<<"UnityCrashHandler", "64", ".exe">>),
     Dir(<<"nested">>, << Dir(<<"dir">>, << File(<<"SiegeUpLinuxServer", ".x86_64">>) >>) >>) >>
BrokenTree ==
  << File(<<"UnityCrashHandler", "64", ".exe">>), File(<<"readme", ".txt">>) >>

Archives == {ServerTree, BrokenTree}

NameIncludes(name, piece) == \E i \in 1..Len(name) : name[i] = piece
NameEndsWith(name, ext) == Len(name) > 0 /\ name[Len(name)] = ext

\* as if the crash handler of the engine were not passed over
EndsWithExecutableExt(name) ==
  NameEndsWith(name, ".exe") \/ NameEndsWith(name, ".x86_64")

IsExecutableName(name) ==
  /\ ~NameIncludes(name, "UnityCrashHandler")
  /\ (NameEndsWith(name, ".exe") \/ NameEndsWith(name, ".x86_64"))

\* the walk of findExecutable over the entries of one directory; the result
\* is the path below the version directory, <<>> for null
RECURSIVE FindInEntries(_, _)
FindInEntries(entries, prefix) ==
  IF Len(entries) = 0 THEN <<>>
  ELSE LET e == entries[1]
           full == Append(prefix, e.name)
           found == IF e.dir THEN FindInEntries(e.kids, full)
                    ELSE IF IsExecutableName(e.name) THEN full ELSE <<>>
       IN IF found # <<>> THEN found ELSE FindInEntries(Tail(entries), prefix)

\* findExecutable(path.join(BUILDS_DIR, version)): readdirSync of a missing
\* directory throws, the catch logs and null is returned
FindExecutable(b) == IF b.exists THEN FindInEntries(b.entries, <<>>) ELSE <<>>

Null == <<>>

\* unzipper.Extract into builds/<version>: the archive's top-level entries
\* replace the entries of the same name and the others stay
ExtractInto(b, archive) ==
  LET names == {archive[i].name : i \in 1..Len(archive)}
      kept == SelectSeq(b.entries, LAMBDA e : e.name \notin names)
  IN BuildDir(kept \o archive)

(***************************************************************************)
(* The children Map: its entries in insertion order.                       *)
(***************************************************************************)
ChildrenIndex(ch, port) ==
  IF \E k \in 1..Len(ch) : ch[k].port = port
  THEN CHOOSE k \in 1..Len(ch) : ch[k].port = port
  ELSE 0

ChildrenHas(ch, port) == ChildrenIndex(ch, port) # 0

ChildrenGet(ch, port) ==
  IF ChildrenHas(ch, port) THEN ch[ChildrenIndex(ch, port)].child ELSE NoChild

ChildrenSet(ch, port, child) ==
  IF ChildrenHas(ch, port)
  THEN [ch EXCEPT ![ChildrenIndex(ch, port)].child = child]
  ELSE Append(ch, [port |-> port, child |-> child])

ChildrenDelete(ch, port) == SelectSeq(ch, LAMBDA e : e.port # port)

\* position of a live Map iterator that has visited the first i entries,
\* after the entry of port is deleted
IteratorAfterDelete(i, ch, port) ==
  IF ChildrenHas(ch, port) /\ ChildrenIndex(ch, port) <= i THEN i - 1 ELSE i

(***************************************************************************)
(* State.                                                                  *)
(***************************************************************************)
VARIABLES
  alive,         \* the supervisor process is running
  settings,      \* settings.servers, the in-memory desired set
  file,          \* the servers array of settings.json on disk
  builds,        \* BUILDS_DIR: version -> directory tree
  children,      \* the children Map, port -> child process
  procs,         \* the child processes spawned so far, by spawn order
  serverErrors,  \* the serverErrors Map, port -> message
  logs,          \* number of .log files under LOGS_DIR/<port>
  watcher,       \* executions of serverWatcherLoop suspended at an await
  h,             \* the RPC handlers suspended inside shutdownChild
  reply,         \* the last request or response, and whether the loop ran since
  budget,        \* external events left
  log            \* the timestamp transform of one output stream of a child

vars == <<alive, settings, file, builds, children, procs, serverErrors, logs,
          watcher, h, reply, budget, log>>

\* files.length > 10, files.slice(10)
KeepLogs == 10

NoError == "none"
\* status 0: the request of that route has arrived and is not answered yet
\* writes: the number of times the handler has written a response
NoReply == [route |-> "none", status |-> 0, ticked |-> FALSE, writes |-> 0]
Pending(route) == [route |-> route, status |-> 0, ticked |-> FALSE, writes |-> 0]
\* an execution of the reconcile loop has ended after /launch answered ok
Ticked(rp) ==
  IF rp.route = "launch" /\ rp.status = 200 THEN [rp EXCEPT !.ticked = TRUE] ELSE rp

\* a handler that is not running
Idle == [pc |-> "idle", port |-> 0, child |-> NoChild, i |-> 0, next |-> <<>>]

\* numbers of .log files a port directory may hold when the supervisor starts
InitialLogCounts == {KeepLogs - 1}

\* the supervisor after its start, before the first timer or request
Boot ==
  /\ alive = TRUE
  /\ settings = <<>>
  /\ file = JsonStringify(<<>>)
  /\ builds = [v \in Versions |-> IF v = "v1" THEN BuildDir(ServerTree) ELSE NoDir]
  /\ children = <<>>
  /\ procs = <<>>
  /\ serverErrors = [p \in Ports |-> NoError]
  /\ \E n \in InitialLogCounts : logs = [p \in Ports |-> n]
  /\ watcher = <<>>
  /\ h = [launch |-> Idle, restart |-> Idle, update |-> Idle]
  /\ reply = NoReply
  /\ budget = MaxRequests

\* no output stream is followed
NoLog == [chunks |-> <<>>, stream |-> <<>>, leftover |-> "undefined",
          out |-> <<>>, closed |-> TRUE]

Init == Boot /\ log = NoLog

(***************************************************************************)
(* The event loop.  A continuation that waits only for an already settled  *)
(* promise is a microtask: it runs before any timer, socket or child       *)
(* event is delivered.  The await of cleanUpLogDirectory, an async         *)
(* function without an await of its own, is of that kind.                  *)
(***************************************************************************)
\* as if cleanUpLogDirectory awaited its file operations
MicrotaskNever == FALSE

\* a child whose spawn failed has its 'error' event queued with
\* process.nextTick
ErrorQueued == \E c \in 1..Len(procs) : procs[c].cb = "error"

MicrotaskPending == watcher # <<>> \/ ErrorQueued

\* a timer, socket or child-process event can be delivered
CanDeliver == alive /\ ~MicrotaskPending

(***************************************************************************)
(* The operating system: child processes and the ports they hold.          *)
(***************************************************************************)
\* isPortFree(port): a listener can be bound on 0.0.0.0:port
IsPortFree(pr, port) == \A c \in 1..Len(pr) : pr[c].port = port => ~pr[c].holds

\* child.kill(sig): the signal is delivered if the process has not exited
Kill(pr, c, sig) ==
  IF c # NoChild /\ pr[c].alive THEN [pr EXCEPT ![c].sig = sig] ELSE pr

\* the game server binds its port
ProcListen(c) ==
  /\ CanDeliver
  /\ procs[c].alive /\ ~procs[c].holds
  /\ IsPortFree(procs, procs[c].port)
  /\ procs' = [procs EXCEPT ![c].holds = TRUE]
  /\ UNCHANGED <<alive, settings, file, builds, children, serverErrors, logs,
                 watcher, h, reply, budget>>
  /\ UNCHANGED log

\* a port outlives its process (TIME_WAIT, a descendant of the child) until
\* the system releases it
PortRelease(c) ==
  /\ CanDeliver
  /\ ~procs[c].alive /\ procs[c].holds
  /\ procs' = [procs EXCEPT ![c].holds = FALSE]
  /\ UNCHANGED <<alive, settings, file, builds, children, serverErrors, logs,
                 watcher, h, reply, budget>>
  /\ UNCHANGED log

\* children.delete(port) by anyone but the /update loop itself
DeleteEntry(port) ==
  /\ children' = ChildrenDelete(children, port)
  /\ h' = [h EXCEPT !.update.i = IteratorAfterDelete(@, children, port)]

\* the code argument of the 'exit' event when the process was ended by a
\* signal: null
BySignal == -1

\* the codes a child process may end with
ExitCodes == {0, 1, BySignal}

\* as if only a positive exit code counted as a crash
IsCrashPositive(code) == code > 0

\* code !== 0
IsCrash(code) == code # 0

\* child.on('exit') up to its await: the process has exited with the given
\* code
ChildExit(c, code) ==
  /\ CanDeliver
  /\ procs[c].alive
  /\ procs[c].sig = "SIGKILL" => code # 0
  /\ procs' = [procs EXCEPT ![c].alive = FALSE, ![c].cb = "waiting"]
  /\ serverErrors' = IF IsCrash(code)
                      THEN [serverErrors EXCEPT ![procs[c].port] = "crashed"]
                      ELSE serverErrors
  /\ UNCHANGED <<alive, settings, file, builds, children, logs, watcher, h,
                 reply, budget>>
  /\ UNCHANGED log

\* child.on('exit') after await waitForPortToBeFree(s.port, 2000): the wait
\* ended because a probe found the port free or because the time was up
ChildExitCleanup(c) ==
  /\ CanDeliver
  /\ procs[c].cb = "waiting"
  /\ procs' = [procs EXCEPT ![c].cb = "done", ![c].sig = "none"]
  /\ DeleteEntry(procs[c].port)
  /\ UNCHANGED <<alive, settings, file, builds, serverErrors, logs, watcher,
                 reply, budget>>
  /\ UNCHANGED log

(***************************************************************************)
(* The reconciler: serverWatcherLoop, started by setInterval.              *)
(***************************************************************************)
\* as if a missing executable ended the loop (return for continue)
RECURSIVE WatcherScanReturns(_, _, _, _)
WatcherScanReturns(arr, from, ch, errs) ==
  IF from > Len(arr) THEN [at |-> 0, errs |-> errs]
  ELSE LET s == arr[from] IN
    IF ChildrenHas(ch, s.port) THEN WatcherScanReturns(arr, from + 1, ch, errs)
    ELSE IF ~s.run THEN WatcherScanReturns(arr, from + 1, ch, errs)
    ELSE IF FindExecutable(builds[s.version]) = Null
      THEN [at |-> 0, errs |-> [errs EXCEPT ![s.port] = "Executable not found"]]
    ELSE [at |-> from, errs |-> errs]

\* as if an entry without executable were skipped without a message
RECURSIVE WatcherScanSilent(_, _, _, _)
WatcherScanSilent(arr, from, ch, errs) ==
  IF from > Len(arr) THEN [at |-> 0, errs |-> errs]
  ELSE LET s == arr[from] IN
    IF ChildrenHas(ch, s.port) THEN WatcherScanSilent(arr, from + 1, ch, errs)
    ELSE IF ~s.run THEN WatcherScanSilent(arr, from + 1, ch, errs)
    ELSE IF FindExecutable(builds[s.version]) = Null
      THEN WatcherScanSilent(arr, from + 1, ch, errs)
    ELSE [at |-> from, errs |-> errs]

\* the loop from the entry at index from up to the first entry it has to
\* start: at is the index of that entry (0 when the loop ends), errs the
\* serverErrors Map after the entries skipped on the way
RECURSIVE WatcherScan(_, _, _, _)
WatcherScan(arr, from, ch, errs) ==
  IF from > Len(arr) THEN [at |-> 0, errs |-> errs]
  ELSE LET s == arr[from] IN
    IF ChildrenHas(ch, s.port) THEN WatcherScan(arr, from + 1, ch, errs)
    ELSE IF ~s.run THEN WatcherScan(arr, from + 1, ch, errs)
    ELSE IF FindExecutable(builds[s.version]) = Null
      THEN WatcherScan(arr, from + 1, ch,
                       [errs EXCEPT ![s.port] = "Executable not found"])
    ELSE [at |-> from, errs |-> errs]

\* cleanUpLogDirectory: the newest KeepLogs files stay
CleanUpLogDirectory(lg, port) ==
  [lg EXCEPT ![port] = IF @ > KeepLogs THEN KeepLogs ELSE @]

\* the log directories after the loop reached the entry at index at
LogsAtAwait(lg, arr, at) ==
  IF at = 0 THEN lg ELSE CleanUpLogDirectory(lg, arr[at].port)

\* the number of entries one execution of the loop would start
Startable(arr, ch) ==
  Cardinality({i \in 1..Len(arr) :
     /\ ~ChildrenHas(ch, arr[i].port)
     /\ arr[i].run
     /\ FindExecutable(builds[arr[i].version]) # Null})

\* the ChildProcess object returned by spawn
NewChild(s) ==
  [port |-> s.port, version |-> s.version, args |-> s.args,
   exe |-> FindExecutable(builds[s.version]),
   alive |-> TRUE, holds |-> FALSE, sig |-> "none", cb |-> "none"]

\* the timer fires: the loop runs up to its first await
WatcherStart ==
  /\ CanDeliver
  /\ Len(watcher) < MaxWatchers
  /\ Len(procs) + Startable(settings, children) <= MaxProcs
  /\ LET r == WatcherScan(settings, 1, children, serverErrors) IN
       /\ serverErrors' = r.errs
       /\ logs' = LogsAtAwait(logs, settings, r.at)
       /\ watcher' = IF r.at = 0 THEN watcher
                     ELSE Append(watcher, [arr |-> settings, i |-> r.at])
       /\ reply' = IF r.at = 0 THEN Ticked(reply) ELSE reply
  /\ UNCHANGED <<alive, settings, file, builds, children, procs, h, budget>>
  /\ UNCHANGED log

\* the loop continues after await cleanUpLogDirectory: the log file is
\* opened, the child spawned and registered, and the loop runs on to its
\* next await or to its end
WatcherResume(k) ==
  /\ alive
  /\ k \in 1..Len(watcher)
  /\ Len(procs) < MaxProcs
  /\ LET w == watcher[k]
         s == w.arr[w.i]
         id == Len(procs) + 1
         ch2 == ChildrenSet(children, s.port, id)
         r == WatcherScan(w.arr, w.i + 1, ch2, serverErrors)
     IN
       /\ procs' = Append(procs, NewChild(s))
       /\ children' = ch2
       /\ serverErrors' = r.errs
       /\ logs' = LogsAtAwait([logs EXCEPT ![s.port] = @ + 1], w.arr, r.at)
       /\ watcher' = IF r.at = 0
                     THEN SubSeq(watcher, 1, k - 1) \o SubSeq(watcher, k + 1, Len(watcher))
                     ELSE [watcher EXCEPT ![k].i = r.at]
       /\ reply' = IF r.at = 0 THEN Ticked(reply) ELSE reply
  /\ UNCHANGED <<alive, settings, file, builds, h, budget>>
  /\ UNCHANGED log

\* the timer fires and a file operation of cleanUpLogDirectory throws for
\* the first entry to start (mkdir, readdir, stat or unlink fails): its catch
\* block reads s.port where no s is in scope, the ReferenceError rejects the
\* promise, the await throws outside the try of the loop, and the rejection
\* of the loop, which nothing handles, ends the process
WatcherStartCleanUpFails ==
  /\ CanDeliver
  /\ LET r == WatcherScan(settings, 1, children, serverErrors) IN
       /\ r.at # 0
       /\ serverErrors' = r.errs
  /\ alive' = FALSE
  /\ UNCHANGED <<settings, file, builds, children, procs, logs, watcher, h,
                 reply, budget>>
  /\ UNCHANGED log

\* the loop continues after its await, spawns and registers the child, and
\* cleanUpLogDirectory throws for the next entry to start
WatcherResumeCleanUpFails(k) ==
  /\ alive
  /\ k \in 1..Len(watcher)
  /\ Len(procs) < MaxProcs
  /\ LET w == watcher[k]
         s == w.arr[w.i]
         id == Len(procs) + 1
         ch2 == ChildrenSet(children, s.port, id)
         r == WatcherScan(w.arr, w.i + 1, ch2, serverErrors)
     IN
       /\ r.at # 0
       /\ procs' = Append(procs, NewChild(s))
       /\ children' = ch2
       /\ serverErrors' = r.errs
       /\ logs' = [logs EXCEPT ![s.port] = @ + 1]
       /\ watcher' = SubSeq(watcher, 1, k - 1) \o SubSeq(watcher, k + 1, Len(watcher))
  /\ alive' = FALSE
  /\ UNCHANGED <<settings, file, builds, h, reply, budget>>
  /\ UNCHANGED log

\* the ChildProcess object returned by spawn when the system could not
\* start the process (ENOENT, EACCES, EAGAIN): it has no pid and its
\* 'error' event is queued
FailedChild(s) == [NewChild(s) EXCEPT !.alive = FALSE, !.cb = "error"]

\* the loop continues after its await and the system fails to start the
\* child: spawn returns, the object is registered, the loop runs on
WatcherResumeSpawnFails(k) ==
  /\ alive
  /\ k \in 1..Len(watcher)
  /\ Len(procs) < MaxProcs
  /\ LET w == watcher[k]
         s == w.arr[w.i]
         id == Len(procs) + 1
         ch2 == ChildrenSet(children, s.port, id)
         r == WatcherScan(w.arr, w.i + 1, ch2, serverErrors)
     IN
       /\ procs' = Append(procs, FailedChild(s))
       /\ children' = ch2
       /\ serverErrors' = r.errs
       /\ logs' = LogsAtAwait([logs EXCEPT ![s.port] = @ + 1], w.arr, r.at)
       /\ watcher' = IF r.at = 0
                     THEN SubSeq(watcher, 1, k - 1) \o SubSeq(watcher, k + 1, Len(watcher))
                     ELSE [watcher EXCEPT ![k].i = r.at]
       /\ reply' = IF r.at = 0 THEN Ticked(reply) ELSE reply
  /\ UNCHANGED <<alive, settings, file, builds, h, budget>>
  /\ UNCHANGED log

\* the queued 'error' event of a child is emitted: the child has no
\* listener for it, the emitter throws and the uncaught exception ends the
\* process
ChildSpawnError(c) ==
  /\ alive
  /\ watcher = <<>>
  /\ procs[c].cb = "error"
  /\ alive' = FALSE
  /\ UNCHANGED <<settings, file, builds, children, procs, serverErrors, logs,
                 watcher, h, reply, budget>>
  /\ UNCHANGED log

(***************************************************************************)
(* The RPC handlers.  Each is cut at its awaits of the port probe; what a  *)
(* handler does between two awaits is one step.                            *)
(***************************************************************************)
\* as if saveSettings() ran before settings.servers is assigned
SaveSettingsEarly(servers) == JsonStringify(settings)

\* saveSettings(): the file is replaced by JSON.stringify(settings)
SaveSettings(servers) == JsonStringify(servers)

Respond(rp, route, status) ==
  [route |-> route, status |-> status, ticked |-> FALSE, writes |-> 1]

\* shutdownChild up to its first await: SIGTERM is sent
ShutdownBegin(hb, route, port, child, i, nxt) ==
  [hb EXCEPT ![route] = [pc |-> "wait1", port |-> port, child |-> child,
                         i |-> i, next |-> nxt]]

\* the /launch loop over settings.servers: the first entry at index from or
\* later whose child has to be stopped, 0 if there is none
FirstStop(from, ch, nxt) ==
  LET stops == {j \in from..Len(settings) :
                  /\ ShouldStop(settings[j], nxt)
                  /\ ChildrenGet(ch, settings[j].port) # NoChild}
  IN IF stops = {} THEN 0 ELSE CHOOSE j \in stops : \A k \in stops : j <= k

\* the /launch handler from the loop entry at index from on: it suspends in
\* the shutdown of the next child to stop, or writes and saves the settings
LaunchContinue(from, ch, nxt, hb) ==
  LET j == FirstStop(from, ch, nxt) IN
    IF j # 0
    THEN /\ procs' = Kill(procs, ChildrenGet(ch, settings[j].port), "SIGTERM")
         /\ h' = ShutdownBegin(hb, "launch", settings[j].port,
                               ChildrenGet(ch, settings[j].port), j, nxt)
         /\ reply' = IF from = 1 THEN Pending("launch") ELSE reply
         /\ UNCHANGED <<alive, settings, file>>
    ELSE /\ settings' = nxt
         /\ file' = SaveSettings(nxt)
         /\ reply' = Respond(reply, "launch", 200)
         /\ h' = [hb EXCEPT !.launch = Idle]
         /\ UNCHANGED <<alive, procs>>

\* POST /launch up to its first await
LaunchRequest(body) ==
  /\ CanDeliver
  /\ budget > 0
  /\ h.launch.pc = "idle"
  /\ budget' = budget - 1
  /\ IF HasDuplicatePorts(body)
     THEN /\ reply' = Respond(reply, "launch", 400)
          /\ UNCHANGED <<alive, settings, file, procs, h>>
     ELSE LaunchContinue(1, children, NextSettings(body), h)
  /\ UNCHANGED <<builds, children, serverErrors, logs, watcher>>
  /\ UNCHANGED log

\* what a second res.json on the same response does: it throws inside the
\* async handler; the rejection is handled by the framework or ends the
\* process, depending on the versions installed
SecondResponseOutcomes == {TRUE, FALSE}

\* the end of the /restart handler
RestartRespond(hb, twice) ==
  /\ reply' = [Respond(reply, "restart", 200) EXCEPT !.writes = IF twice THEN 2 ELSE 1]
  /\ h' = [hb EXCEPT !.restart = Idle]
  /\ alive' \in (IF twice THEN SecondResponseOutcomes ELSE {TRUE})
  /\ UNCHANGED <<settings, file, procs>>

\* POST /restart?port=P up to its first await
RestartRequest(port) ==
  /\ CanDeliver
  /\ budget > 0
  /\ h.restart.pc = "idle"
  /\ budget' = budget - 1
  /\ IF ~\E i \in 1..Len(settings) : settings[i].port = port
     THEN /\ reply' = Respond(reply, "restart", 404)
          /\ UNCHANGED <<alive, settings, file, procs, h>>
     ELSE IF ChildrenGet(children, port) # NoChild
     THEN /\ procs' = Kill(procs, ChildrenGet(children, port), "SIGTERM")
          /\ h' = ShutdownBegin(h, "restart", port, ChildrenGet(children, port), 0, <<>>)
          /\ reply' = Pending("restart")
          /\ UNCHANGED <<alive, settings, file>>
     ELSE RestartRespond(h, TRUE)
  /\ UNCHANGED <<builds, children, serverErrors, logs, watcher>>
  /\ UNCHANGED log

\* the /update loop over children.entries(): hb.update.i entries have been
\* visited; it suspends in the shutdown of the next one or exits the process
UpdateContinue(ch, hb) ==
  IF hb.update.i < Len(ch)
  THEN LET e == ch[hb.update.i + 1] IN
         /\ procs' = Kill(procs, e.child, "SIGTERM")
         /\ h' = ShutdownBegin(hb, "update", e.port, e.child, hb.update.i + 1, <<>>)
         /\ UNCHANGED <<alive, settings, file>>
  ELSE /\ alive' = FALSE
       /\ h' = [hb EXCEPT !.update = Idle]
       /\ UNCHANGED <<settings, file, procs>>

\* POST /update up to its first await
UpdateRequest ==
  /\ CanDeliver
  /\ budget > 0
  /\ h.update.pc = "idle"
  /\ budget' = budget - 1
  /\ reply' = Respond(reply, "update", 200)
  /\ UpdateContinue(children, h)
  /\ UNCHANGED <<builds, children, serverErrors, logs, watcher>>
  /\ UNCHANGED log

(***************************************************************************)
(* shutdownChild after SIGTERM, for the handler of a route.                *)
(***************************************************************************)
Waiting == {"wait1", "wait2"}

\* a probe of waitForPortToBeFree finds the port free: the wait returns true
ShutdownPortFree(route) ==
  /\ CanDeliver
  /\ h[route].pc \in Waiting
  /\ IsPortFree(procs, h[route].port)
  /\ h' = [h EXCEPT ![route].pc = "final"]
  /\ UNCHANGED <<alive, settings, file, builds, children, procs, serverErrors,
                 logs, watcher, reply, budget>>
  /\ UNCHANGED log

\* as if SIGKILL followed SIGTERM whatever the graceful wait returned
ShutdownForceAnyway(route) ==
  /\ CanDeliver
  /\ h[route].pc = "wait1"
  /\ procs' = Kill(procs, h[route].child, "SIGKILL")
  /\ h' = [h EXCEPT ![route].pc = "wait2"]
  /\ UNCHANGED <<alive, settings, file, builds, children, serverErrors, logs,
                 watcher, reply, budget>>
  /\ UNCHANGED log

\* the 2000 ms of the graceful wait are over with the port in use: SIGKILL
ShutdownForce(route) ==
  /\ CanDeliver
  /\ h[route].pc = "wait1"
  /\ ~IsPortFree(procs, h[route].port)
  /\ procs' = Kill(procs, h[route].child, "SIGKILL")
  /\ h' = [h EXCEPT ![route].pc = "wait2"]
  /\ UNCHANGED <<alive, settings, file, builds, children, serverErrors, logs,
                 watcher, reply, budget>>
  /\ UNCHANGED log

\* the 1000 ms after SIGKILL are over with the port in use
ShutdownGiveUp(route) ==
  /\ CanDeliver
  /\ h[route].pc = "wait2"
  /\ ~IsPortFree(procs, h[route].port)
  /\ h' = [h EXCEPT ![route].pc = "final"]
  /\ UNCHANGED <<alive, settings, file, builds, children, procs, serverErrors,
                 logs, watcher, reply, budget>>
  /\ UNCHANGED log

\* as if the entry were deleted whatever the last probe answered
AfterLastProbeAlways(ch, port, free) == ChildrenDelete(ch, port)

\* the children Map after the last probe of shutdownChild answered free
AfterLastProbe(ch, port, free) == IF free THEN ChildrenDelete(ch, port) ELSE ch

\* the last probe of shutdownChild and what the handler does when
\* shutdownChild has returned
ShutdownEnd(route) ==
  /\ CanDeliver
  /\ h[route].pc = "final"
  /\ LET port == h[route].port
         free == IsPortFree(procs, port)
         ch2 == AfterLastProbe(children, port, free)
         hb == [h EXCEPT !.update.i =
                  IF ch2 # children THEN IteratorAfterDelete(@, children, port) ELSE @]
     IN
       /\ children' = ch2
       /\ CASE route = "launch" ->
                 LaunchContinue(h.launch.i + 1, ch2, h.launch.next, hb)
            [] route = "restart" ->
                 RestartRespond(hb, FALSE)
            [] route = "update" ->
                 UpdateContinue(ch2, hb) /\ reply' = reply
  /\ UNCHANGED <<builds, serverErrors, logs, watcher, budget>>
  /\ UNCHANGED log

(***************************************************************************)
(* /purge and /upload, and the service manager.                            *)
(***************************************************************************)
Min(a, b) == IF a < b THEN a ELSE b

\* the runningVersions Set of /purge: the i-th value of the children Map is
\* looked up as settings.servers[i]
RunningVersions(ch, servers) ==
  {servers[i].version : i \in 1..Min(Len(ch), Len(servers))} \ {Undef}

\* POST /purge
Purge ==
  /\ CanDeliver
  /\ budget > 0
  /\ budget' = budget - 1
  /\ LET running == RunningVersions(children, settings)
         purged == {v \in Versions : builds[v].exists /\ v \notin running}
     IN /\ builds' = [v \in Versions |-> IF v \in purged THEN NoDir ELSE builds[v]]
        /\ reply' = Respond(reply, "purge", 200)
  /\ UNCHANGED <<alive, settings, file, children, procs, serverErrors, logs,
                 watcher, h>>
  /\ UNCHANGED log

\* POST /upload of an archive named <version>.zip
Upload(version, archive) ==
  /\ CanDeliver
  /\ budget > 0
  /\ budget' = budget - 1
  /\ builds' = [builds EXCEPT ![version] = ExtractInto(@, archive)]
  /\ reply' = Respond(reply, "upload", 200)
  /\ UNCHANGED <<alive, settings, file, children, procs, serverErrors, logs,
                 watcher, h>>
  /\ UNCHANGED log

\* the service manager starts the supervisor again (Restart=always), after
\* it exited or after it was killed from outside; the processes left in its
\* control group are killed first; the new process loads settings.json
SupervisorStart ==
  /\ ~alive
  /\ budget' = budget
  /\ alive' = TRUE
  /\ settings' = JsonParse(file)
  /\ children' = <<>>
  /\ serverErrors' = [p \in Ports |-> NoError]
  /\ procs' = [c \in 1..Len(procs) |->
                 [procs[c] EXCEPT !.alive = FALSE, !.holds = FALSE, !.cb = "done",
                                  !.sig = "none"]]
  /\ watcher' = <<>>
  /\ h' = [launch |-> Idle, restart |-> Idle, update |-> Idle]
  /\ reply' = NoReply
  /\ UNCHANGED <<file, builds, logs>>
  /\ UNCHANGED log

\* the supervisor is killed from outside
SupervisorKill ==
  /\ CanDeliver
  /\ budget > 0
  /\ budget' = budget - 1
  /\ alive' = FALSE
  /\ UNCHANGED <<settings, file, builds, children, procs, serverErrors, logs,
                 watcher, h, reply>>
  /\ UNCHANGED log

\* the steps of the supervisor and of its children, the /launch requests
\* drawn from bodies
Step(bodies) ==
  \/ WatcherStart
  \/ \E k \in 1..MaxWatchers : WatcherResume(k)
  \/ \E c \in 1..Len(procs) : ProcListen(c)
  \/ \E c \in 1..Len(procs) : PortRelease(c)
  \/ \E c \in 1..Len(procs), code \in ExitCodes : ChildExit(c, code)
  \/ \E c \in 1..Len(procs) : ChildExitCleanup(c)
  \/ \E body \in bodies : LaunchRequest(body)
  \/ \E port \in Ports : RestartRequest(port)
  \/ UpdateRequest
  \/ \E route \in {"launch", "restart", "update"} : ShutdownPortFree(route)
  \/ \E route \in {"launch", "restart", "update"} : ShutdownForce(route)
  \/ \E route \in {"launch", "restart", "update"} : ShutdownGiveUp(route)
  \/ \E route \in {"launch", "restart", "update"} : ShutdownEnd(route)
  \/ SupervisorStart

Next == Step(LaunchBodies)

Spec == Init /\ [][Next]_vars

\* launchError of a port in the answer of GET /status:
\* serverErrors.get(port) || null, NoError standing for null
LaunchError(errs, port) == errs[port]

(***************************************************************************)
(* The supervisor with its build store and the service manager: /purge,    *)
(* /upload and kills of the supervisor join in.                            *)
(***************************************************************************)
NextStore ==
  \/ Step(LaunchBodies)
  \/ Purge
  \/ \E v \in Versions, a \in Archives : Upload(v, a)
  \/ SupervisorKill

SpecStore == Init /\ [][NextStore]_vars

(***************************************************************************)
(* The supervisor with /launch requests that differ in how the arguments   *)
(* of a server are cut into elements.                                      *)
(***************************************************************************)
SplitArgs  == [port |-> 9001, version |-> "v1", args |-> <<"--map", "island">>]
JoinedArgs == [port |-> 9001, version |-> "v1", args |-> <<"--map island">>]

ArgsBodies == { <<>>, <<PlainServer>>, <<SplitArgs>>, <<JoinedArgs>> }

NextArgs == Step(ArgsBodies)

SpecArgs == Init /\ [][NextArgs]_vars

(***************************************************************************)
(* The supervisor with uploads of archives of many shapes.                 *)
(***************************************************************************)
ServerFile == File(<<"SiegeUpLinuxServer", ".x86_64">>)
WindowsFile == File(<<"SiegeUp", ".exe">>)
CrashHandler == File(<<"UnityCrashHandler", "64", ".exe">>)
ReadMe == File(<<"readme", ".txt">>)

TreeArchives ==
  { <<>>,
    << ReadMe, ServerFile, WindowsFile >>,
    << Dir(<<"win">>, << CrashHandler, WindowsFile >>), ServerFile >>,
    << Dir(<<"empty">>, <<>>), Dir(<<"docs">>, << ReadMe >>), ServerFile >>,
    << Dir(<<"data", ".exe">>, << ReadMe >>), CrashHandler >>,
    << Dir(<<"a">>, << Dir(<<"b">>, << Dir(<<"c">>, << WindowsFile >>) >>) >>) >>,
    << Dir(<<"UnityCrashHandler">>, << ServerFile >>), WindowsFile >> }

TreeBodies == { <<PlainServer>>, <<OtherBuild>> }

NextTrees ==
  \/ Step(TreeBodies)
  \/ \E v \in Versions, a \in TreeArchives : Upload(v, a)

SpecTrees == Init /\ [][NextTrees]_vars

(***************************************************************************)
(* The supervisor on a host whose file system and process table can fail.  *)
(***************************************************************************)
NextFaults ==
  \/ Step(LaunchBodies)
  \/ WatcherStartCleanUpFails
  \/ \E k \in 1..MaxWatchers : WatcherResumeCleanUpFails(k)
  \/ \E k \in 1..MaxWatchers : WatcherResumeSpawnFails(k)
  \/ \E c \in 1..Len(procs) : ChildSpawnError(c)

SpecFaults == Init /\ [][NextFaults]_vars

\* setInterval fires the reconcile loop every watchIntervalMs for as long as
\* the supervisor runs, and a suspended execution of the loop is resumed
SpecLive ==
  /\ Init /\ [][NextStore]_vars
  /\ WF_vars(WatcherStart)
  /\ WF_vars(\E k \in 1..MaxWatchers : WatcherResume(k))

\* a step of the shutdownChild a handler is suspended in: its probes and
\* waits are timers
ShutdownStep(route) ==
  \/ ShutdownPortFree(route)
  \/ ShutdownForce(route)
  \/ ShutdownGiveUp(route)
  \/ ShutdownEnd(route)

\* a process that received SIGKILL exits
KilledExit == \E c \in 1..Len(procs), code \in ExitCodes :
                procs[c].sig = "SIGKILL" /\ ChildExit(c, code)

\* the timers of the supervisor fire (reconcile loop, port probes and waits
\* of shutdownChild and of the exit callbacks), a killed process exits, and
\* the service manager starts the supervisor again when it has ended
SpecLiveTimers ==
  /\ Init /\ [][Next]_vars
  /\ WF_vars(WatcherStart)
  /\ WF_vars(\E k \in 1..MaxWatchers : WatcherResume(k))
  /\ WF_vars(ShutdownStep("launch"))
  /\ WF_vars(ShutdownStep("restart"))
  /\ WF_vars(ShutdownStep("update"))
  /\ WF_vars(\E c \in 1..Len(procs) : ChildExitCleanup(c))
  /\ WF_vars(KilledExit)
  /\ WF_vars(SupervisorStart)

\* the timers of the reconcile loop and of the exit callbacks fire
SpecLiveExit ==
  /\ Init /\ [][Next]_vars
  /\ WF_vars(WatcherStart)
  /\ WF_vars(\E k \in 1..MaxWatchers : WatcherResume(k))
  /\ WF_vars(\E c \in 1..Len(procs) : ChildExitCleanup(c))

\* the timers of the reconcile loop and of shutdownChild fire
SpecLiveShutdown ==
  /\ Init /\ [][NextArgs]_vars
  /\ WF_vars(\E k \in 1..MaxWatchers : WatcherResume(k))
  /\ WF_vars(ShutdownStep("launch"))
  /\ WF_vars(ShutdownStep("restart"))
  /\ WF_vars(ShutdownStep("update"))

(***************************************************************************)
(* The supervisor over a time without bound: an ended child process that   *)
(* nothing refers to any more is forgotten, so that the reconciler can     *)
(* spawn again and again.                                                  *)
(***************************************************************************)
\* the number of a child process after process c is forgotten
Renumber(c, x) == IF x > c THEN x - 1 ELSE x

\* nothing refers to the ChildProcess object c any more: the process has
\* ended and released its port, its exit callback is over, the children Map
\* does not hold it and no shutdownChild was called with it
Reap(c) ==
  /\ alive
  /\ ~procs[c].alive /\ ~procs[c].holds /\ procs[c].cb = "done"
  /\ \A k \in 1..Len(children) : children[k].child # c
  /\ \A route \in {"launch", "restart", "update"} : h[route].child # c
  /\ procs' = SubSeq(procs, 1, c - 1) \o SubSeq(procs, c + 1, Len(procs))
  /\ children' = [k \in 1..Len(children) |->
                    [children[k] EXCEPT !.child = Renumber(c, @)]]
  /\ h' = [route \in {"launch", "restart", "update"} |->
             [h[route] EXCEPT !.child = Renumber(c, @)]]
  /\ UNCHANGED <<alive, settings, file, builds, serverErrors, logs, watcher,
                 reply, budget, log>>

UpdateBodies == { <<PlainServer>>, <<PlainServer, Lobby>> }

NextUpdate ==
  \/ Step(UpdateBodies)
  \/ \E c \in 1..Len(procs) : Reap(c)

\* a process that received a signal exits
SignalledExit == \E c \in 1..Len(procs), code \in ExitCodes :
                   procs[c].sig # "none" /\ ChildExit(c, code)

\* the timers of the supervisor fire (reconcile loop, port probes and waits
\* of the shutdownChild of /update and of the exit callbacks), a process
\* that received a signal exits, and the system releases the port of a
\* process that has ended; the reconcile loop can hold these events up for
\* the time of its microtasks only, not for ever
SpecLiveUpdate ==
  /\ Init /\ [][NextUpdate]_vars
  /\ WF_vars(WatcherStart)
  /\ WF_vars(\E k \in 1..MaxWatchers : WatcherResume(k))
  /\ SF_vars(ShutdownStep("update"))
  /\ SF_vars(\E c \in 1..Len(procs) : ChildExitCleanup(c))
  /\ SF_vars(SignalledExit)
  /\ SF_vars(\E c \in 1..Len(procs) : PortRelease(c))

(***************************************************************************)
(* createTimestampTransform: the Transform stream between an output stream *)
(* of a child (stdout, stderr) and its log file.  The child's output is a  *)
(* stream of bytes that arrives in chunks (Buffers) cut anywhere; a text   *)
(* is the sequence of its characters.                                      *)
(***************************************************************************)
\* bytes of the UTF-8 encoding: the letter a, the line feed, and the two
\* bytes of the letter e with acute accent
ByteA == "61"
ByteLF == "0A"
ByteLead == "C3"
ByteCont == "A9"
Bytes == {ByteA, ByteLF, ByteLead, ByteCont}

\* characters: a, line feed, e with acute accent, and U+FFFD, which the
\* decoder puts in the place of bytes that are no complete character
NL == "\n"
EAcute == "e'"
Replacement == "U+FFFD"

\* chunk.toString(): the UTF-8 decoding of the bytes of one Buffer
RECURSIVE ChunkToString(_)
ChunkToString(chunk) ==
  IF Len(chunk) = 0 THEN <<>>
  ELSE IF chunk[1] = ByteA THEN <<"a">> \o ChunkToString(Tail(chunk))
  ELSE IF chunk[1] = ByteLF THEN <<NL>> \o ChunkToString(Tail(chunk))
  ELSE IF chunk[1] = ByteLead /\ Len(chunk) >= 2 /\ chunk[2] = ByteCont
    THEN <<EAcute>> \o ChunkToString(Tail(Tail(chunk)))
  ELSE <<Replacement>> \o ChunkToString(Tail(chunk))

\* text.split('\n'): the pieces between the line feeds, at least one
RECURSIVE SplitLines(_, _)
SplitLines(text, piece) ==
  IF Len(text) = 0 THEN <<piece>>
  ELSE IF text[1] = NL THEN <<piece>> \o SplitLines(Tail(text), <<>>)
  ELSE SplitLines(Tail(text), Append(piece, text[1]))

\* `[${new Date().toISOString()}] `
Timestamp == "[ts] "

\* lines.map(line => timestamp + line).join('\n') + (lines.length > 0 ? '\n' : '')
RECURSIVE StampLines(_)
StampLines(lines) ==
  IF Len(lines) = 0 THEN <<>>
  ELSE <<Timestamp>> \o lines[1] \o <<NL>> \o StampLines(Tail(lines))

\* this._leftover as a text: '' when it is undefined
Leftover(lg) == IF lg.leftover = "undefined" THEN <<>> ELSE lg.leftover

\* transform(chunk, encoding, callback)
Transform(lg, chunk) ==
  LET lines == SplitLines(Leftover(lg) \o ChunkToString(chunk), <<>>) IN
    [lg EXCEPT !.leftover = lines[Len(lines)],
               !.out = @ \o StampLines(SubSeq(lines, 1, Len(lines) - 1))]

\* flush(callback): this._leftover is falsy when undefined or ''
Flush(lg) ==
  IF Leftover(lg) # <<>>
  THEN [lg EXCEPT !.out = @ \o <<Timestamp>> \o Leftover(lg) \o <<NL>>]
  ELSE lg

\* number of chunks of a stream, and of bytes of a chunk
MaxChunks == 3
MaxChunkLen == 2

Chunks == UNION {[1..n -> Bytes] : n \in 1..MaxChunkLen}
ChunkSeqs == UNION {[1..n -> Chunks] : n \in 0..MaxChunks}

RECURSIVE Concat(_)
Concat(seqs) == IF Len(seqs) = 0 THEN <<>> ELSE seqs[1] \o Concat(Tail(seqs))

\* a child starts to write a stream that will arrive cut into the chunks
InitLog ==
  /\ Boot
  /\ \E cs \in ChunkSeqs :
       log = [chunks |-> cs, stream |-> Concat(cs), leftover |-> "undefined",
              out |-> <<>>, closed |-> FALSE]

\* the next chunk of the stream arrives
TransformChunk ==
  /\ ~log.closed /\ log.chunks # <<>>
  /\ log' = [Transform(log, log.chunks[1]) EXCEPT !.chunks = Tail(log.chunks)]
  /\ UNCHANGED <<alive, settings, file, builds, children, procs, serverErrors,
                 logs, watcher, h, reply, budget>>

\* the stream of the child ends
FlushOnClose ==
  /\ ~log.closed /\ log.chunks = <<>>
  /\ log' = [Flush(log) EXCEPT !.closed = TRUE]
  /\ UNCHANGED <<alive, settings, file, builds, children, procs, serverErrors,
                 logs, watcher, h, reply, budget>>

NextLog == TransformChunk \/ FlushOnClose

SpecLog == InitLog /\ [][NextLog]_vars

(***************************************************************************)
(* Notions the claims are stated in.                                       *)
(***************************************************************************)
ShutdownRoutes == {"launch", "restart", "update"}

\* the step spawns a child process
Spawns == Len(procs') = Len(procs) + 1
\* the port of the child the step spawns
SpawnedPort == procs'[Len(procs')].port

\* the child processes of a port that have not exited
LiveProcs(port) == {c \in 1..Len(procs) : procs[c].port = port /\ procs[c].alive}

\* the step is the last probe of the shutdownChild of a route
IsShutdownEnd(route) == alive /\ h[route].pc = "final" /\ h'[route].pc # "final"

\* the desired set asks for a running server on the port
DesiredRunning(port) ==
  \E i \in 1..Len(settings) : settings[i].port = port /\ settings[i].run

\* the child process runs and no signal has been sent to it
Unstopped(c) == procs[c].alive /\ procs[c].sig = "none"

HandlersIdle == \A route \in ShutdownRoutes : h[route].pc = "idle"

(***************************************************************************)
(* C1: at any instant the children Map holds at most one entry per port    *)
(* and at most one process spawned for a port is alive: no process is      *)
(* spawned for a port while an earlier one for that port has not exited.   *)
(***************************************************************************)
C1_OneChildPerPort ==
  \A port \in Ports :
    /\ Cardinality({k \in 1..Len(children) : children[k].port = port}) <= 1
    /\ Cardinality(LiveProcs(port)) <= 1

(***************************************************************************)
(* C3: once a /launch has returned ok, no other request has arrived since, *)
(* and the reconcile loop has run, every entry of the children Map whose   *)
(* process runs unsignalled (an entry nothing is going to remove) belongs  *)
(* to a port the desired set wants running.                                *)
(***************************************************************************)
C3_StoppedStayStopped ==
  (/\ alive
   /\ reply = [route |-> "launch", status |-> 200, ticked |-> TRUE, writes |-> 1]
   /\ HandlersIdle
   /\ watcher = <<>>)
  => \A k \in 1..Len(children) :
       Unstopped(children[k].child) => DesiredRunning(children[k].port)

(***************************************************************************)
(* C5: the last step of shutdownChild removes the entry of its port from   *)
(* the children Map only if the port is free at that instant; when the     *)
(* port is in use the Map is left as it is.                                *)
(***************************************************************************)
C5_ShutdownIsPortTrue ==
  [][\A route \in ShutdownRoutes :
       IsShutdownEnd(route) =>
         /\ children' # children => IsPortFree(procs, h[route].port)
         /\ ~IsPortFree(procs, h[route].port) => children' = children
         /\ \A port \in Ports \ {h[route].port} :
              ChildrenGet(children', port) = ChildrenGet(children, port)]_vars

\* a shutdown has ended with the port free: the handler has answered while
\* the process it signalled is alive, unregistered and its port free
C5_Witness ==
  /\ reply = [route |-> "restart", status |-> 200, ticked |-> FALSE, writes |-> 1]
  /\ \E c \in 1..Len(procs) :
       /\ procs[c].alive /\ procs[c].sig = "SIGTERM"
       /\ ~ChildrenHas(children, procs[c].port)
       /\ IsPortFree(procs, procs[c].port)

(***************************************************************************)
(* C8: after a spawn on a port, at most KeepLogs .log files are in the     *)
(* log directory of the port.                                              *)
(***************************************************************************)
C8_LogRetention == [][Spawns => logs'[SpawnedPort] <= KeepLogs]_vars

(***************************************************************************)
(* C9: while the shutdownChild of a /launch or /restart handler is in      *)
(* progress for a port, the reconciler spawns nothing on that port.        *)
(***************************************************************************)
C9_StopBeforeRespawn ==
  [][\A route \in {"launch", "restart"} :
       (h[route].pc # "idle" /\ Spawns) => SpawnedPort # h[route].port]_vars

(***************************************************************************)
(* C10: at no instant are two executions of serverWatcherLoop in progress, *)
(* and no execution spawns a child for a port that has an entry in the     *)
(* children Map.                                                           *)
(***************************************************************************)
C10_TicksDoNotOverlap ==
  /\ [](Len(watcher) <= 1)
  /\ [][Spawns => ~ChildrenHas(children, SpawnedPort)]_vars

\* one execution is suspended at its await, after it started a first child
\* and with a second one to start
C10_Witness ==
  /\ Len(watcher) = 1
  /\ watcher[1].i = 2
  /\ ChildrenHas(children, watcher[1].arr[1].port)
  /\ ~ChildrenHas(children, watcher[1].arr[2].port)

(***************************************************************************)
(* C2: when no request is in progress and none arrives any more, every     *)
(* port that the desired set wants running from a version directory with   *)
(* an executable eventually has an entry in the children Map.              *)
(***************************************************************************)
\* no request is being handled and none will arrive; the reconciler can
\* still start every desired server within the model's bound on processes
Quiescent ==
  /\ alive /\ budget = 0 /\ HandlersIdle
  /\ Len(procs) + Len(settings) <= MaxProcs

\* the desired set wants the port running and its version has an executable
Runnable(port) ==
  \E i \in 1..Len(settings) :
    /\ settings[i].port = port /\ settings[i].run
    /\ FindExecutable(builds[settings[i].version]) # Null

C2_RunningConverges ==
  \A port \in Ports : (Quiescent /\ Runnable(port)) ~> ChildrenHas(children, port)

\* a port is running again after its first child has exited, with no
\* request left
C2_Witness ==
  /\ alive /\ budget = 0 /\ HandlersIdle
  /\ \E port \in Ports :
       /\ Runnable(port)
       /\ ChildrenGet(children, port) # NoChild
       /\ procs[ChildrenGet(children, port)].alive
       /\ \E c \in 1..Len(procs) : procs[c].port = port /\ procs[c].cb = "done"

(***************************************************************************)
(* C4: /purge removes exactly the build directories whose name is not the  *)
(* version a child in the children Map was spawned from.                   *)
(***************************************************************************)
\* the versions the registered children were spawned from
ChildVersions == {procs[children[k].child].version : k \in 1..Len(children)}

C4_PurgeSafety ==
  [][Purge =>
       \A v \in Versions :
         (builds[v].exists /\ ~builds'[v].exists)
           <=> (builds[v].exists /\ v \notin ChildVersions)]_vars

(***************************************************************************)
(* C6: a /launch whose servers array repeats a port is answered with 400   *)
(* and changes neither the desired set, the settings file, the children    *)
(* Map, serverErrors nor any process.                                      *)
(***************************************************************************)
RepeatsPort(body) ==
  \E i, j \in 1..Len(body) : i # j /\ body[i].port = body[j].port

C6_DuplicateRejected ==
  [][\A body \in LaunchBodies :
       (RepeatsPort(body) /\ LaunchRequest(body)) =>
          /\ reply'.route = "launch" /\ reply'.status = 400
          /\ UNCHANGED <<settings, file, children, serverErrors, procs, h,
                         builds, logs>>]_vars

\* a /launch with a repeated port has been refused while a child runs
C6_Witness ==
  /\ reply.route = "launch" /\ reply.status = 400
  /\ settings # <<>>
  /\ \E k \in 1..Len(children) : procs[children[k].child].alive

(***************************************************************************)
(* C7: the settings file always holds the in-memory desired set, in its    *)
(* defaulted form, and reading it back gives that set; the desired set and *)
(* the file change only in the step in which a /launch answers ok.         *)
(***************************************************************************)
IsDefaulted(s) ==
  /\ s.name # "" /\ s.name # Undef
  /\ s.visible \in BOOLEAN /\ s.run \in BOOLEAN
  /\ s.args \in Seq({"--map", "island"})

C7_Persistence ==
  /\ [](/\ file = JsonStringify(settings)
        /\ JsonParse(file) = settings
        /\ \A i \in 1..Len(settings) : IsDefaulted(settings[i]))
  /\ [][(settings' # settings \/ file' # file) =>
          (reply'.route = "launch" /\ reply'.status = 200)]_vars

\* the supervisor has been started again and has read back a desired set
\* with an entry that has no version
C7_Witness ==
  /\ alive /\ reply = NoReply
  /\ procs # <<>>
  /\ \E i \in 1..Len(settings) : settings[i].version = Undef

(***************************************************************************)
(* C11: an execution of the reconcile loop that meets a failure on one     *)
(* entry still runs to its end: when it is over, every other desired entry *)
(* with run=true and an executable has a child, and serverErrors has       *)
(* changed only for ports whose executable is missing.                     *)
(***************************************************************************)
\* the step is one of serverWatcherLoop
IsTickStep ==
  \/ WatcherStart
  \/ \E k \in 1..MaxWatchers : WatcherResume(k)
  \/ WatcherStartCleanUpFails
  \/ \E k \in 1..MaxWatchers : WatcherResumeCleanUpFails(k)
  \/ \E k \in 1..MaxWatchers : WatcherResumeSpawnFails(k)

\* the desired set wants the port running and its version has no executable
MissingExecutable(port) ==
  \E i \in 1..Len(settings) :
    /\ settings[i].port = port /\ settings[i].run
    /\ FindExecutable(builds[settings[i].version]) = Null

\* the step is one in which the log rotation for the port fails
CleanUpFailsFor(port) ==
  \/ /\ WatcherStartCleanUpFails
     /\ settings[WatcherScan(settings, 1, children, serverErrors).at].port = port
  \/ \E k \in 1..Len(watcher) :
       /\ WatcherResumeCleanUpFails(k)
       /\ LET w == watcher[k] IN
            w.arr[WatcherScan(w.arr, w.i + 1, children', serverErrors).at].port = port

C11_PerPortIsolation ==
  [][(IsTickStep /\ watcher' = <<>>) =>
       /\ \A port \in Ports :
            (Runnable(port) /\ ~CleanUpFailsFor(port)) => ChildrenHas(children', port)
       /\ \A port \in Ports :
            serverErrors'[port] # serverErrors[port] => MissingExecutable(port)]_vars

(***************************************************************************)
(* C12: when the reconcile loop has spawned a child for a port, the port   *)
(* has no entry in serverErrors and /status reports no launchError for it. *)
(***************************************************************************)
C12_ErrorClearedBySuccess ==
  [][Spawns => LaunchError(serverErrors', SpawnedPort) = NoError]_vars

(***************************************************************************)
(* C13: when the system fails to start the child of a port and reports it  *)
(* with the 'error' event, the supervisor keeps running, the port has no   *)
(* entry in the children Map any more and serverErrors has a message for   *)
(* the port.                                                               *)
(***************************************************************************)
C13_SpawnFailure ==
  [][\A c \in 1..Len(procs) :
       ChildSpawnError(c) =>
         /\ alive'
         /\ ~ChildrenHas(children', procs[c].port)
         /\ LaunchError(serverErrors', procs[c].port) # NoError]_vars

(***************************************************************************)
(* C14: once a shutdown that sent SIGKILL to the child of a port has ended *)
(* and left the entry of the port in the children Map, the entry stays for *)
(* as long as the port is in use.                                          *)
(***************************************************************************)
\* SIGKILL has been sent to the child by a shutdown of the port, and no
\* shutdown of the port is in progress any more
PostKillWaitOver(port, c) ==
  /\ procs[c].sig = "SIGKILL"
  /\ \A route \in ShutdownRoutes : h[route].pc # "idle" => h[route].port # port

C14_ShutdownTimeoutKeepsEntry ==
  [][\A k \in 1..Len(children) :
       (/\ alive
        /\ PostKillWaitOver(children[k].port, children[k].child)
        /\ ~IsPortFree(procs, children[k].port))
       => ChildrenHas(children', children[k].port)]_vars

(***************************************************************************)
(* C15: the exit callback of a child removes the entry of its port only    *)
(* when the port is free, and the reconcile loop spawns no child on a port *)
(* that an exited process still occupies.                                  *)
(***************************************************************************)
\* an exited child process still occupies the port
OccupiedAfterExit(port) ==
  \E c \in 1..Len(procs) : procs[c].port = port /\ ~procs[c].alive /\ procs[c].holds

C15_ExitCleanupWaitsForPort ==
  [][/\ \A c \in 1..Len(procs) :
          (ChildExitCleanup(c) /\ ChildrenHas(children, procs[c].port))
            => IsPortFree(procs, procs[c].port)
     /\ Spawns => ~OccupiedAfterExit(SpawnedPort)]_vars

(***************************************************************************)
(* C16: the handler of a /restart request writes exactly one response.     *)
(***************************************************************************)
C16_RestartOneResponse ==
  (reply.route = "restart" /\ reply.status # 0) => reply.writes = 1

(***************************************************************************)
(* C17: a /restart for a port that is not in the desired set is answered   *)
(* with 404 and signals and removes nothing; for a port with a running     *)
(* child it sends SIGTERM to that child, no step of the handler spawns a   *)
(* process, and when the port is desired running from a version with an    *)
(* executable and no other request is in progress or to come, the          *)
(* children Map eventually holds another child for the port (or the        *)
(* processes of the model are used up).                                    *)
(***************************************************************************)
Configured(port) == \E i \in 1..Len(settings) : settings[i].port = port

\* the step belongs to the /restart handler
IsRestartStep ==
  \/ \E port \in Ports : RestartRequest(port)
  \/ ShutdownStep("restart")

\* the /restart handler is shutting down the child c of the port and no
\* other request is in progress or to come
RestartingAlone(port, c) ==
  /\ alive /\ budget = 0
  /\ h.restart.pc # "idle" /\ h.restart.port = port /\ h.restart.child = c
  /\ h.launch.pc = "idle" /\ h.update.pc = "idle"

ProcsUsedUp == Len(procs) + Len(settings) > MaxProcs

C17_Restart ==
  /\ [][\A port \in Ports :
          RestartRequest(port) =>
            /\ ~Configured(port) =>
                 /\ reply'.status = 404
                 /\ UNCHANGED <<procs, children>>
            /\ (ChildrenGet(children, port) # NoChild
                  /\ procs[ChildrenGet(children, port)].alive) =>
                 procs'[ChildrenGet(children, port)].sig = "SIGTERM"]_vars
  /\ [][IsRestartStep => ~Spawns]_vars
  /\ \A port \in Ports : \A c \in 1..MaxProcs :
       (RestartingAlone(port, c) /\ Runnable(port))
         ~> (ChildrenGet(children, port) \notin {NoChild, c} \/ ProcsUsedUp)

(***************************************************************************)
(* C18: when the /update handler ends the process, shutdownChild has been  *)
(* run for every child process the supervisor spawned that is still        *)
(* running: each of them has been sent a signal.                           *)
(***************************************************************************)
\* the step is the process.exit(0) of the /update handler
IsUpdateExit == alive /\ ~alive' /\ (UpdateRequest \/ ShutdownEnd("update"))

C18_UpdateShutsDownAll ==
  [][IsUpdateExit => \A c \in 1..Len(procs) : ~Unstopped(c)]_vars

(***************************************************************************)
(* C19: when a child ends with a non-zero code or by a signal, serverErrors *)
(* gets the crash message for its port; when it ends with code 0,          *)
(* serverErrors is left as it is; and when the port is desired running     *)
(* from a version with an executable and no request is in progress or to   *)
(* come, the port eventually has a running child again (or the processes   *)
(* of the model are used up).                                              *)
(***************************************************************************)
\* the registered child of the port has ended and its exit callback is in
\* its port wait
ExitObserved(port) ==
  /\ ChildrenGet(children, port) # NoChild
  /\ procs[ChildrenGet(children, port)].cb = "waiting"

HasRunningChild(port) ==
  /\ ChildrenGet(children, port) # NoChild
  /\ procs[ChildrenGet(children, port)].alive

C19_AbnormalExit ==
  /\ [][\A c \in 1..Len(procs) : \A code \in ExitCodes :
          ChildExit(c, code) =>
            /\ (code = BySignal \/ code > 0) =>
                 LaunchError(serverErrors', procs[c].port) = "crashed"
            /\ code = 0 => serverErrors' = serverErrors]_vars
  /\ \A port \in Ports :
       (alive /\ budget = 0 /\ HandlersIdle /\ ExitObserved(port) /\ Runnable(port))
         ~> (HasRunningChild(port) \/ ProcsUsedUp)

\* a child killed by a shutdown has ended, the crash message of its port is
\* set and the port, still desired, has a running child again
C19_Witness ==
  /\ alive /\ HandlersIdle /\ ~ProcsUsedUp
  /\ \E port \in Ports :
       /\ Runnable(port) /\ HasRunningChild(port)
       /\ LaunchError(serverErrors, port) = "crashed"
       /\ \E c \in 1..Len(procs) : procs[c].port = port /\ procs[c].cb = "done"

(***************************************************************************)
(* C20: /launch shuts down the child of a previously desired server if and *)
(* only if its port is missing from the new set, or the new version        *)
(* differs, or the new args differ from the old ones element by element,   *)
(* or the new run is false: up to its first await the handler sends        *)
(* SIGTERM to the first such child in the order of the old set and writes  *)
(* nothing yet; when there is no such child it signals nothing and writes  *)
(* the new set.                                                            *)
(***************************************************************************)
\* the child of the old entry s has to be stopped for the new set
MustStop(s, next) ==
  LET k == NextMapGet(next, s.port) IN
    \/ k = 0
    \/ next[k].version # s.version
    \/ next[k].args # s.args
    \/ ~next[k].run

\* the indexes of the old entries whose registered child has to be stopped
StopSet(next) ==
  {j \in 1..Len(settings) :
     /\ ChildrenHas(children, settings[j].port)
     /\ MustStop(settings[j], next)}

C20_LaunchStopSet ==
  [][\A body \in ArgsBodies \cup LaunchBodies :
       (LaunchRequest(body) /\ ~RepeatsPort(body)) =>
         LET next == NextSettings(body)
             stops == StopSet(next)
         IN IF stops = {}
            THEN /\ procs' = procs
                 /\ settings' = next /\ file' = JsonStringify(next)
                 /\ reply'.status = 200
            ELSE LET j == CHOOSE j \in stops : \A i \in stops : j <= i
                     c == ChildrenGet(children, settings[j].port)
                 IN /\ procs[c].alive => procs'[c].sig = "SIGTERM"
                    /\ \A d \in 1..Len(procs) : d # c => procs'[d] = procs[d]
                    /\ settings' = settings /\ file' = file
                    /\ reply'.status = 0]_vars

(***************************************************************************)
(* C21: the reconcile loop spawns a child only for a port that the current *)
(* desired set holds with run=true and a version that has an executable,   *)
(* from that version and with those args, and only when the children Map   *)
(* has no entry for the port; and when an execution of the loop is over,   *)
(* every port without entry that is desired running from a version         *)
(* without executable has the "Executable not found" message and still no  *)
(* entry.                                                                  *)
(***************************************************************************)
\* the step ends an execution of serverWatcherLoop
IsTickEnd ==
  /\ WatcherStart \/ \E k \in 1..MaxWatchers : WatcherResume(k)
  /\ watcher' = <<>>

C21_SpawnGuards ==
  /\ [][Spawns =>
          /\ ~ChildrenHas(children, SpawnedPort)
          /\ \E i \in 1..Len(settings) :
               /\ settings[i].port = SpawnedPort /\ settings[i].run
               /\ FindExecutable(builds[settings[i].version]) # Null
               /\ procs'[Len(procs')].version = settings[i].version
               /\ procs'[Len(procs')].args = settings[i].args]_vars
  /\ [][IsTickEnd =>
          \A port \in Ports :
            (MissingExecutable(port) /\ ~ChildrenHas(children, port)) =>
              /\ LaunchError(serverErrors', port) = "Executable not found"
              /\ ~ChildrenHas(children', port)]_vars

\* an execution of the loop has started the lobby and left the message for
\* the other port, whose version has no directory
C21_Witness ==
  /\ alive /\ watcher = <<>>
  /\ \E p, q \in Ports :
       /\ MissingExecutable(p) /\ ~ChildrenHas(children, p)
       /\ LaunchError(serverErrors, p) = "Executable not found"
       /\ Runnable(q) /\ HasRunningChild(q)

(***************************************************************************)
(* C22: shutdownChild sends SIGTERM first; it sends SIGKILL exactly when   *)
(* its graceful wait ends with the port in use, and to a child that has    *)
(* been sent SIGTERM before; it enters the wait after the kill only with that     *)
(* SIGKILL; called for a port without child process it signals and removes *)
(* nothing; and every call comes to its end, unless the supervisor ends    *)
(* first.                                                                  *)
(***************************************************************************)
\* the step is the first one of a shutdownChild of the route
IsShutdownBegin(route) ==
  /\ alive /\ h'[route].pc = "wait1"
  /\ h[route].pc \in {"idle", "final"}

\* the last signal sent to the child, if the child runs
SentTo(pr, c, sig) == pr[c].alive => pr[c].sig = sig

\* the child, if it runs, has been sent SIGTERM, and maybe SIGKILL after it
\* by another shutdownChild called for the same child
Signalled(pr, c) == pr[c].alive => pr[c].sig \in {"SIGTERM", "SIGKILL"}

RECURSIVE TextOf(_)
TextOf(bytes) ==
  IF Len(bytes) = 0 THEN <<>>
  ELSE IF bytes[1] = ByteA THEN <<"a">> \o TextOf(Tail(bytes))
  ELSE IF bytes[1] = ByteLF THEN <<NL>> \o TextOf(Tail(bytes))
  ELSE IF bytes[1] = ByteLead /\ Len(bytes) >= 2 /\ bytes[2] = ByteCont
    THEN <<EAcute>> \o TextOf(Tail(Tail(bytes)))
  ELSE <<Replacement>> \o TextOf(Tail(bytes))

\* the text with a timestamp at the start of every line and a line feed
\* after a tail that has none; atStart: the next character starts a line
RECURSIVE Timestamped(_, _)
Timestamped(text, atStart) ==
  IF Len(text) = 0 THEN (IF atStart THEN <<>> ELSE <<NL>>)
  ELSE (IF atStart THEN <<Timestamp>> ELSE <<>>)
         \o <<text[1]>> \o Timestamped(Tail(text), text[1] = NL)

C23_ChunkIndependence ==
  (log.closed /\ log.stream # <<>>) => log.out = Timestamped(TextOf(log.stream), TRUE)

(***************************************************************************)
(* C24: findExecutable of a version directory gives the first file, in     *)
(* depth-first order along the listing order of each directory, whose name *)
(* does not contain "UnityCrashHandler" and ends with ".exe" or ".x86_64", *)
(* and null exactly when the tree has no such file or the directory does   *)
(* not exist; a child is spawned from that file.                           *)
(***************************************************************************)
\* the paths of the files of a tree, in depth-first order
RECURSIVE FilesOf(_, _)
FilesOf(entries, prefix) ==
  IF Len(entries) = 0 THEN <<>>
  ELSE LET e == entries[1] IN
    (IF e.dir THEN FilesOf(e.kids, Append(prefix, e.name))
              ELSE << Append(prefix, e.name) >>)
      \o FilesOf(Tail(entries), prefix)

\* the file at the path is a server executable by its name
Qualifies(path) ==
  LET name == path[Len(path)] IN
    /\ \A i \in 1..Len(name) : name[i] # "UnityCrashHandler"
    /\ name[Len(name)] \in {".exe", ".x86_64"}

\* the first server executable of a version directory, Null if none
FirstQualifying(b) ==
  LET files == IF b.exists THEN FilesOf(b.entries, <<>>) ELSE <<>>
      hits == {i \in 1..Len(files) : Qualifies(files[i])}
  IN IF hits = {} THEN Null
     ELSE files[CHOOSE i \in hits : \A j \in hits : i <= j]

C24_FindExecutable ==
  /\ [](\A v \in Versions : FindExecutable(builds[v]) = FirstQualifying(builds[v]))
  /\ [][Spawns =>
          LET c == procs'[Len(procs')] IN
            c.exe # Null /\ c.exe = FirstQualifying(builds[c.version])]_vars

\* a child runs from an executable three directories down, found in a
\* version directory that did not exist before the upload
C24_Witness ==
  \E c \in 1..Len(procs) :
    /\ procs[c].alive /\ procs[c].version = "v2"
    /\ procs[c].exe = << <<"a">>, <<"b">>, <<"c">>, <<"SiegeUp", ".exe">> >>
    /\ FindExecutable(builds["v2"]) = procs[c].exe

(***************************************************************************)
(* C25: the exit callback of a child and the last step of a shutdownChild  *)
(* called for a child remove from the children Map only the entry that     *)
(* holds that child: an entry that holds another child of the port,        *)
(* registered during the wait, stays.                                      *)
(***************************************************************************)
\* the step removes the entry of the port, which holds child c
RemovesEntryOf(port, c) ==
  /\ ChildrenGet(children, port) = c
  /\ ~ChildrenHas(children', port)

C25_IdentitySafeRemoval ==
  [][/\ \A c \in 1..Len(procs) :
          ChildExitCleanup(c) =>
            \A b \in 1..Len(procs) : RemovesEntryOf(procs[c].port, b) => b = c
     /\ \A route \in ShutdownRoutes :
          ShutdownEnd(route) =>
            \A b \in 1..Len(procs) :
              RemovesEntryOf(h[route].port, b) => b = h[route].child]_vars

(***************************************************************************)
(* C26: in the step in which a /launch answers ok, when every child        *)
(* process that was sent a signal or has ended is gone and holds no port,  *)
(* every entry of the children Map whose child runs unsignalled belongs to *)
(* a port of the new desired set and holds a child spawned with the        *)
(* version and the args that the new set gives for the port.               *)
(***************************************************************************)
\* the step is the one in which the /launch handler writes the new set and
\* answers ok, after a last shutdownChild, if any, that found its port free
IsLaunchOk ==
  /\ \/ \E body \in LaunchBodies : LaunchRequest(body)
     \/ ShutdownEnd("launch") /\ IsPortFree(procs, h.launch.port)
  /\ reply'.route = "launch" /\ reply'.status = 200

\* every child process that was sent a signal or has ended is gone and
\* holds no port
ShutdownsSucceeded(pr) ==
  \A c \in 1..Len(pr) :
    (pr[c].sig # "none" \/ ~pr[c].alive) => (~pr[c].alive /\ ~pr[c].holds)

\* the child was spawned for an entry of the desired set
SpawnedFrom(c, servers) ==
  \E i \in 1..Len(servers) :
    /\ servers[i].port = procs[c].port
    /\ servers[i].version = procs[c].version
    /\ servers[i].args = procs[c].args

C26_NoStaleChild ==
  [][(IsLaunchOk /\ ShutdownsSucceeded(procs')) =>
       \A k \in 1..Len(children') :
         Unstopped(children'[k].child) => SpawnedFrom(children'[k].child, settings')]_vars

(***************************************************************************)
(* C27: once /update has been acknowledged, the supervisor process         *)
(* eventually exits.                                                       *)
(***************************************************************************)
\* the /update handler has answered and is in its loop of shutdowns
UpdateAcknowledged == alive /\ h.update.pc # "idle"

C27_UpdateTerminates == UpdateAcknowledged ~> ~alive

====
